---- MODULE Spec2Model ----
(***************************************************************************)
(* Distributed mixed-precision training as walked through in               *)
(* ddp_apex_tutorial.ipynb: the launch of one process per GPU, the process *)
(* group, learning-rate scaling, sharded data loading, the learning-rate   *)
(* schedule, the mixed-precision training step and the rank-0 guarded      *)
(* logging and checkpointing.                                              *)
(*                                                                         *)
(* The notebook's cells are calls into torch / apex.  A library call is    *)
(* modelled at its call site by the behaviour of the library function that *)
(* is called; the comment of each such definition names that function.     *)
(* Floating-point values (learning rates) are modelled as exact rationals  *)
(* [n, d]; rounding is not modelled.                                       *)
(***************************************************************************)
EXTENDS Integers, Sequences, FiniteSets, TLC

\* ---------------------------------------------------------------- bounds
MaxNodes == 2       \* --nnodes ranges over 1..MaxNodes
MaxGpus == 2        \* --nproc_per_node ranges over 1..MaxGpus
MaxWorld == 2       \* largest world size followed through data loading / training
MaxLen == 3         \* len(train_dataset) ranges over 1..MaxLen
MaxWorkers == 2     \* --workers ranges over 0..MaxWorkers
MaxSteps == 2       \* training steps followed per run
MaxGrad == 1        \* local gradients range over 0..MaxGrad
MaxEpoch == 120     \* epochs followed through the lr schedule
MaxLenEpoch == 2    \* len_epoch (batches per epoch) ranges over 1..MaxLenEpoch
MaxLogEpochs == 2   \* epochs followed through logging / checkpointing
NumGroups == 2      \* len(optimizer.param_groups)

\* ------------------------------------------------------------- rationals
RECURSIVE GCD(_, _)
GCD(a, b) == IF b = 0 THEN a ELSE GCD(b, a % b)

\* The rational n/d in lowest terms (n >= 0, d > 0).
Rat(n, d) == [n |-> n \div GCD(n, d), d |-> d \div GCD(n, d)]
RatEq(a, b) == a.n * b.d = b.n * a.d
RatLeq(a, b) == a.n * b.d <= b.n * a.d
RatTimes(a, k) == Rat(a.n * k, a.d)
RatOver(a, k) == Rat(a.n, a.d * k)

RECURSIVE Pow10(_)
Pow10(k) == IF k = 0 THEN 1 ELSE 10 * Pow10(k - 1)

\* ----------------------------------------------------------------- state
VARIABLES
    nnodes,            \* --nnodes of the launch
    nproc_per_node,    \* --nproc_per_node of the launch
    launched,          \* nodes on which the launch command has been run
    pc,                \* position of each process in the script
    env,               \* RANK / WORLD_SIZE / LOCAL_RANK given to each process
    gpu,               \* args.gpu
    world_size,        \* args.world_size
    batch_size,        \* args.batch_size (--b)
    base_lr,           \* args.lr as given on the command line
    lr,                \* args.lr of each process
    workers,           \* args.workers (--workers)
    datasetLen,        \* len(train_dataset)
    perm,              \* the permutation the sampler's seeded shuffle yields
    drawn,             \* indices each process drew from train_loader this epoch
    nworkers,          \* live DataLoader worker subprocesses of each process
    param,             \* the model parameter of each replica
    grad,              \* the .grad of each replica
    loss,              \* the loss of the current step of each process
    scale_ctx,         \* TRUE while inside `with amp.scale_loss(...)`
    grads_scaled,      \* TRUE while .grad holds gradients of the scaled loss
    nsteps,            \* optimizer.step calls made by each process
    nbackward,         \* backward passes started by each process
    reduced,           \* per step, the all-reduced gradient once available
    trace,             \* events of the current training step of each process
    epochOf,           \* current epoch of each process
    writing,           \* processes currently inside a disk-writing call
    nwrites,           \* disk-writing calls made by each process
    called,            \* TRUE once adjust_learning_rate has been called
    epoch,             \* argument epoch of the last adjust_learning_rate call
    step,              \* argument step of the last call
    len_epoch,         \* argument len_epoch (batches per epoch)
    group_lr,          \* param_group['lr'] of every param group
    ret_lr             \* value returned by adjust_learning_rate

launchVars == <<nnodes, nproc_per_node, launched, env, gpu, world_size,
                batch_size, base_lr, lr>>
dataVars == <<workers, datasetLen, perm, drawn, nworkers>>
trainVars == <<param, grad, loss, scale_ctx, grads_scaled, nsteps, nbackward,
               reduced, trace>>
logVars == <<epochOf, writing, nwrites>>
schedVars == <<called, epoch, step, len_epoch, group_lr, ret_lr>>
vars == <<pc, launchVars, dataVars, trainVars, logVars, schedVars>>

AllProc == (0 .. MaxNodes - 1) \X (0 .. MaxGpus - 1)
Nodes == 0 .. nnodes - 1
Procs == Nodes \X (0 .. nproc_per_node - 1)
NodeOf(p) == p[1]
LocalOf(p) == p[2]

BatchSizes == {64, 128, 208, 256}
BaseLrs == {Rat(1, 10), Rat(1, 5)}
NoEnv == [rank |-> -1, world_size |-> -1, local_rank |-> -1]
ZeroLr == Rat(0, 1)

\* ---------------------------------------------------------------- launch
\* --node_rank on the command line of each node: 0 on node 0, 1 on node 1.
NodeRankCopied(node) == 0
NodeRankArg(node) == node

\* torch.distributed.launch: WORLD_SIZE = nproc_per_node * nnodes, and for
\* local_rank in range(nproc_per_node): RANK = nproc_per_node * node_rank +
\* local_rank, LOCAL_RANK = local_rank (also passed as --local_rank).
LauncherEnv(p) ==
    [rank |-> nproc_per_node * NodeRankArg(NodeOf(p)) + LocalOf(p),
     world_size |-> nproc_per_node * nnodes,
     local_rank |-> LocalOf(p)]

\* python -m torch.distributed.launch ... run on one node.
LaunchNode(node) ==
    /\ node \in Nodes
    /\ node \notin launched
    /\ launched' = launched \cup {node}
    /\ env' = [p \in AllProc |->
                 IF p \in Procs /\ NodeOf(p) = node THEN LauncherEnv(p) ELSE env[p]]
    /\ pc' = [p \in AllProc |->
                 IF p \in Procs /\ NodeOf(p) = node THEN "spawned" ELSE pc[p]]
    /\ UNCHANGED <<nnodes, nproc_per_node, gpu, world_size, batch_size, base_lr, lr>>
    /\ UNCHANGED <<dataVars, trainVars, logVars, schedVars>>

\* args.gpu = args.local_rank; set_device; entering init_process_group
\* (env://), which blocks until WORLD_SIZE processes have joined.
EnterInitProcessGroup(p) ==
    /\ p \in Procs
    /\ pc[p] = "spawned"
    /\ gpu' = [gpu EXCEPT ![p] = env[p].local_rank]
    /\ pc' = [pc EXCEPT ![p] = "joined"]
    /\ UNCHANGED <<nnodes, nproc_per_node, launched, env, world_size,
                   batch_size, base_lr, lr>>
    /\ UNCHANGED <<dataVars, trainVars, logVars, schedVars>>

Joined == {q \in AllProc : pc[q] \notin {"none", "spawned"}}

\* init_process_group returns; args.world_size = get_world_size().
GetWorldSize(p) ==
    /\ p \in Procs
    /\ pc[p] = "joined"
    /\ Cardinality(Joined) >= env[p].world_size
    /\ world_size' = [world_size EXCEPT ![p] = env[p].world_size]
    /\ pc' = [pc EXCEPT ![p] = "ready"]
    /\ UNCHANGED <<nnodes, nproc_per_node, launched, env, gpu,
                   batch_size, base_lr, lr>>
    /\ UNCHANGED <<dataVars, trainVars, logVars, schedVars>>

\* torch.distributed.get_rank()
get_rank(p) == env[p].rank

\* ------------------------------------------------- learning-rate scaling
\* args.lr * float(args.batch_size*args.world_size)/256.
ScaledLrLocalBatch(l, b, w) == RatOver(RatTimes(l, b), 256)
ScaledLr(l, b, w) == RatOver(RatTimes(l, b * w), 256)

\* args.lr = args.lr * float(...)/256. ; optimizer = SGD(..., args.lr, ...)
ScaleLr(p) ==
    /\ p \in Procs
    /\ pc[p] = "ready"
    /\ lr' = [lr EXCEPT ![p] = ScaledLr(lr[p], batch_size, world_size[p])]
    /\ pc' = [pc EXCEPT ![p] = "scaled"]
    /\ UNCHANGED <<nnodes, nproc_per_node, launched, env, gpu, world_size,
                   batch_size, base_lr>>
    /\ UNCHANGED <<dataVars, trainVars, logVars, schedVars>>

\* Values of the variables a run does not touch.
IdleData ==
    /\ workers = 0
    /\ datasetLen = 1
    /\ perm = <<0>>
    /\ drawn = [p \in AllProc |-> <<>>]
    /\ nworkers = [p \in AllProc |-> 0]

IdleTrain ==
    /\ param = [p \in AllProc |-> 0]
    /\ grad = [p \in AllProc |-> 0]
    /\ loss = [p \in AllProc |-> 0]
    /\ scale_ctx = [p \in AllProc |-> FALSE]
    /\ grads_scaled = [p \in AllProc |-> FALSE]
    /\ nsteps = [p \in AllProc |-> 0]
    /\ nbackward = [p \in AllProc |-> 0]
    /\ reduced = <<>>
    /\ trace = [p \in AllProc |-> <<>>]

IdleLog ==
    /\ epochOf = [p \in AllProc |-> 0]
    /\ writing = {}
    /\ nwrites = [p \in AllProc |-> 0]

IdleSched ==
    /\ called = FALSE
    /\ epoch = 0
    /\ step = 0
    /\ len_epoch = 1
    /\ group_lr = [g \in 1 .. NumGroups |-> ZeroLr]
    /\ ret_lr = ZeroLr

\* The state before any launch command has been run.
InitLaunch ==
    /\ nnodes \in 1 .. MaxNodes
    /\ nproc_per_node \in 1 .. MaxGpus
    /\ launched = {}
    /\ pc = [p \in AllProc |-> "none"]
    /\ env = [p \in AllProc |-> NoEnv]
    /\ gpu = [p \in AllProc |-> -1]
    /\ world_size = [p \in AllProc |-> -1]
    /\ batch_size \in BatchSizes
    /\ base_lr \in BaseLrs
    /\ lr = [p \in AllProc |-> base_lr]
    /\ IdleData /\ IdleTrain /\ IdleLog /\ IdleSched

NextLaunch ==
    \/ \E node \in 0 .. MaxNodes - 1 : LaunchNode(node)
    \/ \E p \in AllProc : EnterInitProcessGroup(p)
    \/ \E p \in AllProc : GetWorldSize(p)
    \/ \E p \in AllProc : ScaleLr(p)

Spec == InitLaunch /\ [][NextLaunch]_vars

Initialised(p) == pc[p] \in {"ready", "scaled"}
RanksOf(S) == {env[p].rank : p \in S}
LocalRanksOn(node) == {env[p].local_rank : p \in {q \in Procs : NodeOf(q) = node}}

\* C4: once a process has returned from init_process_group, every process that
\* has returned sees world_size = nnodes * nproc_per_node, the local ranks on
\* each node are exactly 0..nproc_per_node-1, each the GPU index of its
\* process, and the global ranks are exactly 0..world_size-1 with no two
\* processes sharing one.
C4_WorldSizeAndRanks ==
    (\E p \in Procs : Initialised(p)) =>
        /\ \A p \in Procs :
              Initialised(p) => world_size[p] = nnodes * nproc_per_node
        /\ \A node \in Nodes : LocalRanksOn(node) = 0 .. nproc_per_node - 1
        /\ \A p \in Procs : gpu[p] = env[p].local_rank
        /\ \A p, q \in Procs :
              (p # q /\ NodeOf(p) = NodeOf(q)) => gpu[p] # gpu[q]
        /\ RanksOf(Procs) = 0 .. nnodes * nproc_per_node - 1
        /\ \A p, q \in Procs : p # q => get_rank(p) # get_rank(q)

\* Two nodes with two GPUs each, every process past init_process_group.
C4_Witness ==
    /\ nnodes = 2
    /\ nproc_per_node = 2
    /\ \A p \in Procs : Initialised(p)

GlobalBatch == batch_size * nnodes * nproc_per_node

\* C6: the lr given to the optimizer is base_lr * (batch_size * world_size) / 256:
\* it is base_lr when the global batch size is 256, a global batch k times
\* larger gives an lr k times larger, and all ranks compute the same lr.
C6_LinearLrScaling ==
    \A p \in Procs :
        pc[p] = "scaled" =>
            /\ lr[p].n * base_lr.d * 256 = base_lr.n * GlobalBatch * lr[p].d
            /\ (GlobalBatch = 256 => RatEq(lr[p], base_lr))
            /\ \A k \in 1 .. 4 :
                  RatEq(ScaledLr(base_lr, batch_size, k * world_size[p]),
                        RatTimes(lr[p], k))
            /\ \A q \in Procs : pc[q] = "scaled" => RatEq(lr[p], lr[q])

\* Two ranks have scaled their lr in a run whose global batch size is 256.
C6_Witness ==
    /\ GlobalBatch = 256
    /\ \E p, q \in Procs : p # q /\ pc[p] = "scaled" /\ pc[q] = "scaled"

\* ---------------------------------------------------------- data loading
RECURSIVE Perms(_)
\* The orders torch.randperm(n) can yield, as sequences over 0..n-1.
Perms(n) ==
    IF n = 0 THEN {<<>>}
    ELSE {[i \in 1 .. n |-> IF i < k THEN s[i] ELSE IF i = k THEN n - 1 ELSE s[i - 1]] :
              s \in Perms(n - 1), k \in 1 .. n}

Range(s) == {s[i] : i \in 1 .. Len(s)}

\* DistributedSampler.__init__: num_samples = ceil(len(dataset) / num_replicas),
\* total_size = num_samples * num_replicas.
NumSamples(n, w) == (n + w - 1) \div w
TotalSize(n, w) == NumSamples(n, w) * w

\* DistributedSampler.__iter__: the seeded shuffle of range(len(dataset)),
\* padded from its own start up to total_size (repeating it when more than
\* len(dataset) indices are missing; torch releases that pad only once fail an
\* assertion in that case, which only arises for num_replicas > 2 * len) ...
Padded(n, w) == [i \in 1 .. TotalSize(n, w) |-> perm[((i - 1) % n) + 1]]

\* ... then indices[rank:total_size:num_replicas].
SamplerIndices(n, w, r) ==
    [k \in 1 .. NumSamples(n, w) |-> Padded(n, w)[r + (k - 1) * w + 1]]

\* train_sampler = DistributedSampler(train_dataset), with num_replicas and rank
\* defaulting to get_world_size() and get_rank(); DataLoader(..., sampler=train_sampler).
TrainIndicesNoSampler(p) == perm
TrainIndices(p) == SamplerIndices(datasetLen, world_size[p], get_rank(p))

\* DataLoader(..., num_workers=args.workers): subprocesses one iterator starts.
LoaderWorkersPerNode(p) == workers \div nproc_per_node
LoaderWorkers(p) == workers

\* Building the datasets, samplers and loaders.
BuildLoaders(p) ==
    /\ p \in Procs
    /\ pc[p] = "scaled"
    /\ pc' = [pc EXCEPT ![p] = "loaders"]
    /\ UNCHANGED <<launchVars, dataVars, trainVars, logVars, schedVars>>

\* Iterating train_loader: the iterator starts its workers and yields the
\* samples of this rank's indices.
IterTrain(p) ==
    /\ p \in Procs
    /\ pc[p] = "loaders"
    /\ drawn' = [drawn EXCEPT ![p] = TrainIndices(p)]
    /\ nworkers' = [nworkers EXCEPT ![p] = LoaderWorkers(p)]
    /\ pc' = [pc EXCEPT ![p] = "train_iter"]
    /\ UNCHANGED <<workers, datasetLen, perm>>
    /\ UNCHANGED <<launchVars, trainVars, logVars, schedVars>>

\* train_loader exhausted: its workers exit.
EndTrain(p) ==
    /\ p \in Procs
    /\ pc[p] = "train_iter"
    /\ nworkers' = [nworkers EXCEPT ![p] = 0]
    /\ pc' = [pc EXCEPT ![p] = "train_done"]
    /\ UNCHANGED <<workers, datasetLen, perm, drawn>>
    /\ UNCHANGED <<launchVars, trainVars, logVars, schedVars>>

\* Iterating val_loader.
IterVal(p) ==
    /\ p \in Procs
    /\ pc[p] = "train_done"
    /\ nworkers' = [nworkers EXCEPT ![p] = LoaderWorkers(p)]
    /\ pc' = [pc EXCEPT ![p] = "val_iter"]
    /\ UNCHANGED <<workers, datasetLen, perm, drawn>>
    /\ UNCHANGED <<launchVars, trainVars, logVars, schedVars>>

\* val_loader exhausted: its workers exit; the next epoch follows.
EndVal(p) ==
    /\ p \in Procs
    /\ pc[p] = "val_iter"
    /\ nworkers' = [nworkers EXCEPT ![p] = 0]
    /\ pc' = [pc EXCEPT ![p] = "loaders"]
    /\ UNCHANGED <<workers, datasetLen, perm, drawn>>
    /\ UNCHANGED <<launchVars, trainVars, logVars, schedVars>>

\* Every process of a launch after init_process_group and lr scaling.
AfterSetup(b, l) ==
    /\ nnodes \in 1 .. MaxNodes
    /\ nproc_per_node \in 1 .. MaxGpus
    /\ nnodes * nproc_per_node <= MaxWorld
    /\ launched = Nodes
    /\ env = [p \in AllProc |-> IF p \in Procs THEN LauncherEnv(p) ELSE NoEnv]
    /\ gpu = [p \in AllProc |-> IF p \in Procs THEN LocalOf(p) ELSE -1]
    /\ world_size = [p \in AllProc |->
                        IF p \in Procs THEN nnodes * nproc_per_node ELSE -1]
    /\ batch_size = b
    /\ base_lr = l
    /\ lr = [p \in AllProc |->
                IF p \in Procs THEN ScaledLr(l, b, nnodes * nproc_per_node) ELSE l]

InitData ==
    /\ AfterSetup(208, Rat(1, 10))
    /\ pc = [p \in AllProc |-> IF p \in Procs THEN "scaled" ELSE "none"]
    /\ workers \in 0 .. MaxWorkers
    /\ datasetLen \in 1 .. MaxLen
    /\ perm \in Perms(datasetLen)
    /\ drawn = [p \in AllProc |-> <<>>]
    /\ nworkers = [p \in AllProc |-> 0]
    /\ IdleTrain /\ IdleLog /\ IdleSched

NextData ==
    \/ \E p \in AllProc : BuildLoaders(p)
    \/ \E p \in AllProc : IterTrain(p)
    \/ \E p \in AllProc : EndTrain(p)
    \/ \E p \in AllProc : IterVal(p)
    \/ \E p \in AllProc : EndVal(p)

SpecData == InitData /\ [][NextData]_vars

HasDrawn(p) == drawn[p] # <<>>
WorldSize == nnodes * nproc_per_node

DistinctSlices ==
    \A p, q \in Procs :
        (p # q /\ HasDrawn(p) /\ HasDrawn(q)) => Range(drawn[p]) # Range(drawn[q])

Covered ==
    (\A p \in Procs : HasDrawn(p)) =>
        UNION {Range(drawn[p]) : p \in Procs} = 0 .. datasetLen - 1

NodeProcs(node) == {p \in Procs : NodeOf(p) = node}

RECURSIVE SumWorkers(_)
SumWorkers(S) ==
    IF S = {} THEN 0
    ELSE LET p == CHOOSE x \in S : TRUE IN nworkers[p] + SumWorkers(S \ {p})

\* Processes on a node: one training process per GPU plus their loader workers.
TotalProcesses(node) == Cardinality(NodeProcs(node)) + SumWorkers(NodeProcs(node))

Iterating(p) == pc[p] \in {"train_iter", "val_iter"}

LossScale == 2

\* The statements of the mixed-precision step in program order:
\*   output = model(input); loss = criterion(output, target)
\*   with amp.scale_loss(loss, optimizer) as scaled_loss:
\*       scaled_loss.backward()
\*   optimizer.step()
StepInsideScaleCtx(stmt) ==
    CASE stmt = "forward" -> "enter_scale"
      [] stmt = "enter_scale" -> "backward"
      [] stmt = "backward" -> "opt_step"
      [] stmt = "opt_step" -> "exit_scale"
      [] stmt = "exit_scale" -> "forward"
Succ(stmt) ==
    CASE stmt = "forward" -> "enter_scale"
      [] stmt = "enter_scale" -> "backward"
      [] stmt = "backward" -> "exit_scale"
      [] stmt = "exit_scale" -> "opt_step"
      [] stmt = "opt_step" -> "forward"

\* Where a process goes after statement stmt, having made n optimizer steps.
Goto(stmt, n) ==
    IF Succ(stmt) = "forward" /\ n >= MaxSteps THEN "done" ELSE Succ(stmt)

Event(p, e) == [ev |-> e, ctx |-> scale_ctx[p], gs |-> grads_scaled[p]]

\* output = model(input); loss = criterion(output, target).  The loss of the
\* batch stands for its gradient with respect to the parameter.
Forward(p) ==
    /\ p \in Procs
    /\ pc[p] = "forward"
    /\ \E l \in 0 .. MaxGrad : loss' = [loss EXCEPT ![p] = l]
    /\ trace' = [trace EXCEPT ![p] = <<Event(p, "loss")>>]
    /\ pc' = [pc EXCEPT ![p] = Goto("forward", nsteps[p])]
    /\ UNCHANGED <<param, grad, scale_ctx, grads_scaled, nsteps, nbackward, reduced>>
    /\ UNCHANGED <<launchVars, dataVars, logVars, schedVars>>

\* with amp.scale_loss(loss, optimizer) as scaled_loss: entering the context.
EnterScaleLoss(p) ==
    /\ p \in Procs
    /\ pc[p] = "enter_scale"
    /\ scale_ctx' = [scale_ctx EXCEPT ![p] = TRUE]
    /\ trace' = [trace EXCEPT ![p] = Append(@, Event(p, "scale"))]
    /\ pc' = [pc EXCEPT ![p] = Goto("enter_scale", nsteps[p])]
    /\ UNCHANGED <<param, grad, loss, grads_scaled, nsteps, nbackward, reduced>>
    /\ UNCHANGED <<launchVars, dataVars, logVars, schedVars>>

\* scaled_loss.backward(): the local gradient of the scaled loss; the wrapper
\* of DDP(model, delay_allreduce=True) then starts the all-reduce of the step.
Backward(p) ==
    /\ p \in Procs
    /\ pc[p] = "backward"
    /\ LET k == nbackward[p] + 1
           g == (IF scale_ctx[p] THEN LossScale ELSE 1) * loss[p]
       IN /\ grad' = [grad EXCEPT ![p] = g]
          /\ nbackward' = [nbackward EXCEPT ![p] = k]
          /\ reduced' = IF Len(reduced) < k
                        THEN Append(reduced, [sum |-> g, count |-> 1])
                        ELSE [reduced EXCEPT ![k] =
                                 [sum |-> @.sum + g, count |-> @.count + 1]]
    /\ grads_scaled' = [grads_scaled EXCEPT ![p] = scale_ctx[p]]
    /\ trace' = [trace EXCEPT ![p] = Append(@, Event(p, "backward"))]
    /\ pc' = [pc EXCEPT ![p] = "allreduce"]
    /\ UNCHANGED <<param, loss, scale_ctx, nsteps>>
    /\ UNCHANGED <<launchVars, dataVars, logVars, schedVars>>

\* model = DDP(model, delay_allreduce=True): after backward, .grad holds the
\* average of the gradients of all replicas.
LocalGrad(p) == grad[p]
GradAfterBackward(p) == reduced[nbackward[p]].sum \div world_size[p]

\* The all-reduce completes once every replica has contributed; backward returns.
AllReduceDone(p) ==
    /\ p \in Procs
    /\ pc[p] = "allreduce"
    /\ reduced[nbackward[p]].count = world_size[p]
    /\ grad' = [grad EXCEPT ![p] = GradAfterBackward(p)]
    /\ pc' = [pc EXCEPT ![p] = Goto("backward", nsteps[p])]
    /\ UNCHANGED <<param, loss, scale_ctx, grads_scaled, nsteps, nbackward,
                   reduced, trace>>
    /\ UNCHANGED <<launchVars, dataVars, logVars, schedVars>>

\* Leaving the amp.scale_loss context: the gradients are unscaled.
ExitScaleLoss(p) ==
    /\ p \in Procs
    /\ pc[p] = "exit_scale"
    /\ grad' = [grad EXCEPT ![p] = IF grads_scaled[p] THEN @ \div LossScale ELSE @]
    /\ grads_scaled' = [grads_scaled EXCEPT ![p] = FALSE]
    /\ scale_ctx' = [scale_ctx EXCEPT ![p] = FALSE]
    /\ trace' = [trace EXCEPT ![p] = Append(@, Event(p, "unscale"))]
    /\ pc' = [pc EXCEPT ![p] = Goto("exit_scale", nsteps[p])]
    /\ UNCHANGED <<param, loss, nsteps, nbackward, reduced>>
    /\ UNCHANGED <<launchVars, dataVars, logVars, schedVars>>

\* optimizer.step()
OptimizerStep(p) ==
    /\ p \in Procs
    /\ pc[p] = "opt_step"
    /\ param' = [param EXCEPT ![p] = @ - grad[p]]
    /\ nsteps' = [nsteps EXCEPT ![p] = @ + 1]
    /\ trace' = [trace EXCEPT ![p] = Append(@, Event(p, "step"))]
    /\ pc' = [pc EXCEPT ![p] = Goto("opt_step", nsteps[p] + 1)]
    /\ UNCHANGED <<grad, loss, scale_ctx, grads_scaled, nbackward, reduced>>
    /\ UNCHANGED <<launchVars, dataVars, logVars, schedVars>>

InitTrain ==
    /\ AfterSetup(208, Rat(1, 10))
    /\ pc = [p \in AllProc |-> IF p \in Procs THEN "forward" ELSE "none"]
    /\ IdleData /\ IdleTrain /\ IdleLog /\ IdleSched

NextTrain ==
    \/ \E p \in AllProc : Forward(p)
    \/ \E p \in AllProc : EnterScaleLoss(p)
    \/ \E p \in AllProc : Backward(p)
    \/ \E p \in AllProc : AllReduceDone(p)
    \/ \E p \in AllProc : ExitScaleLoss(p)
    \/ \E p \in AllProc : OptimizerStep(p)

SpecTrain == InitTrain /\ [][NextTrain]_vars

StepOrder == <<"loss", "scale", "backward", "unscale", "step">>

\* C2: in every mixed-precision step the events occur in the order loss
\* computed, loss scaled, backward, gradients unscaled, optimizer.step;
\* optimizer.step never runs while the gradients are still scaled, and
\* backward never runs outside the amp.scale_loss context.
C2_ScaleBackwardUnscaleStep ==
    \A p \in Procs :
        /\ Len(trace[p]) <= Len(StepOrder)
        /\ \A i \in 1 .. Len(trace[p]) :
              /\ trace[p][i].ev = StepOrder[i]
              /\ trace[p][i].ev = "step" => ~trace[p][i].gs
              /\ trace[p][i].ev = "backward" => trace[p][i].ctx
        /\ pc[p] = "opt_step" => ~grads_scaled[p]

\* A process has gone through a whole step with a non-zero gradient.
C2_Witness ==
    \E p \in Procs :
        /\ Len(trace[p]) = Len(StepOrder)
        /\ loss[p] > 0

\* C5: replicas that have made the same number of optimizer steps hold the
\* same parameters, and a replica has applied step k only after the
\* gradients of all replicas for step k were reduced.
C5_ReplicasIdentical ==
    /\ \A p, q \in Procs : nsteps[p] = nsteps[q] => param[p] = param[q]
    /\ \A p \in Procs :
          nsteps[p] >= 1 =>
              /\ Len(reduced) >= nsteps[p]
              /\ reduced[nsteps[p]].count = WorldSize
              /\ \A q \in Procs : nbackward[q] >= nsteps[p]

\* Two replicas whose last batches gave different gradients have both made
\* every step.
C5_Witness ==
    \E p, q \in Procs :
        /\ p # q
        /\ loss[p] # loss[q]
        /\ nsteps[p] = MaxSteps
        /\ nsteps[q] = MaxSteps

\* --------------------------------------------- logging and checkpointing
\* if torch.distributed.get_rank() == 0:
MayWriteLocalRank(p) == env[p].local_rank = 0
MayWrite(p) == get_rank(p) = 0

\* An epoch of training and validation, up to the logging guard.
TrainEpoch(p) ==
    /\ p \in Procs
    /\ pc[p] = "train"
    /\ pc' = [pc EXCEPT ![p] = "log_guard"]
    /\ UNCHANGED <<launchVars, dataVars, trainVars, logVars, schedVars>>

\* The guard of the TensorBoard logging.
LogGuard(p) ==
    /\ p \in Procs
    /\ pc[p] = "log_guard"
    /\ pc' = [pc EXCEPT ![p] = IF MayWrite(p) THEN "add_scalar_1" ELSE "ckpt_guard"]
    /\ UNCHANGED <<launchVars, dataVars, trainVars, logVars, schedVars>>

ScalarCalls == <<"add_scalar_1", "add_scalar_2", "add_scalar_3", "add_scalar_4">>

\* writer.add_scalar(...) is entered: the process writes to the event file.
AddScalarBegin(p, i) ==
    /\ p \in Procs
    /\ pc[p] = ScalarCalls[i]
    /\ p \notin writing
    /\ writing' = writing \cup {p}
    /\ UNCHANGED <<pc, epochOf, nwrites>>
    /\ UNCHANGED <<launchVars, dataVars, trainVars, schedVars>>

\* writer.add_scalar(...) returns.
AddScalarEnd(p, i) ==
    /\ p \in Procs
    /\ pc[p] = ScalarCalls[i]
    /\ p \in writing
    /\ writing' = writing \ {p}
    /\ nwrites' = [nwrites EXCEPT ![p] = @ + 1]
    /\ pc' = [pc EXCEPT ![p] = IF i < Len(ScalarCalls) THEN ScalarCalls[i + 1]
                                ELSE "ckpt_guard"]
    /\ UNCHANGED epochOf
    /\ UNCHANGED <<launchVars, dataVars, trainVars, schedVars>>

\* The guard of save_checkpoint.
CheckpointGuard(p) ==
    /\ p \in Procs
    /\ pc[p] = "ckpt_guard"
    /\ pc' = [pc EXCEPT ![p] = IF MayWrite(p) THEN "save_checkpoint" ELSE "epoch_end"]
    /\ UNCHANGED <<launchVars, dataVars, trainVars, logVars, schedVars>>

\* save_checkpoint(...) is entered: the process writes the checkpoint file.
SaveCheckpointBegin(p) ==
    /\ p \in Procs
    /\ pc[p] = "save_checkpoint"
    /\ p \notin writing
    /\ writing' = writing \cup {p}
    /\ UNCHANGED <<pc, epochOf, nwrites>>
    /\ UNCHANGED <<launchVars, dataVars, trainVars, schedVars>>

\* save_checkpoint(...) returns.
SaveCheckpointEnd(p) ==
    /\ p \in Procs
    /\ pc[p] = "save_checkpoint"
    /\ p \in writing
    /\ writing' = writing \ {p}
    /\ nwrites' = [nwrites EXCEPT ![p] = @ + 1]
    /\ pc' = [pc EXCEPT ![p] = "epoch_end"]
    /\ UNCHANGED epochOf
    /\ UNCHANGED <<launchVars, dataVars, trainVars, schedVars>>

\* The next epoch of the training loop.
NextEpoch(p) ==
    /\ p \in Procs
    /\ pc[p] = "epoch_end"
    /\ epochOf' = [epochOf EXCEPT ![p] = @ + 1]
    /\ pc' = [pc EXCEPT ![p] = IF epochOf[p] + 1 < MaxLogEpochs THEN "train" ELSE "done"]
    /\ UNCHANGED <<writing, nwrites>>
    /\ UNCHANGED <<launchVars, dataVars, trainVars, schedVars>>

InitLog ==
    /\ AfterSetup(208, Rat(1, 10))
    /\ pc = [p \in AllProc |-> IF p \in Procs THEN "train" ELSE "none"]
    /\ IdleData /\ IdleTrain /\ IdleLog /\ IdleSched

NextLog ==
    \/ \E p \in AllProc : TrainEpoch(p)
    \/ \E p \in AllProc : LogGuard(p)
    \/ \E p \in AllProc, i \in 1 .. Len(ScalarCalls) : AddScalarBegin(p, i)
    \/ \E p \in AllProc, i \in 1 .. Len(ScalarCalls) : AddScalarEnd(p, i)
    \/ \E p \in AllProc : CheckpointGuard(p)
    \/ \E p \in AllProc : SaveCheckpointBegin(p)
    \/ \E p \in AllProc : SaveCheckpointEnd(p)
    \/ \E p \in AllProc : NextEpoch(p)

SpecLog == InitLog /\ [][NextLog]_vars

\* C1: only the process of global rank 0 is ever inside, or has ever made, a
\* disk-writing call (writer.add_scalar, save_checkpoint), so no two
\* processes write at the same time.
C1_OnlyRankZeroWrites ==
    /\ \A p \in writing : get_rank(p) = 0
    /\ \A p \in Procs : nwrites[p] > 0 => get_rank(p) = 0
    /\ Cardinality(writing) <= 1

\* Rank 0 is writing its checkpoint while another process of the run is past
\* its own guards.
C1_Witness ==
    \E p, q \in Procs :
        /\ p # q
        /\ p \in writing
        /\ pc[p] = "save_checkpoint"
        /\ pc[q] = "epoch_end"

\* ------------------------------------------------ learning-rate schedule
\* factor = epoch // 30; if epoch >= 80: factor = factor + 1
FactorNoBump(e) == e \div 30
Factor(e) == IF e >= 80 THEN e \div 30 + 1 ELSE e \div 30

\* lr = args.lr*(0.1**factor); if epoch < 5: lr = lr*float(1 + step +
\* epoch*len_epoch)/(5.*len_epoch)
ScheduleLr(base, e, s, n) ==
    LET stepped == RatOver(base, Pow10(Factor(e)))
    IN IF e < 5 THEN RatOver(RatTimes(stepped, 1 + s + e * n), 5 * n)
       ELSE stepped

Proc0 == <<0, 0>>

\* adjust_learning_rate(optimizer, epoch, step, len_epoch)
adjust_learning_rate(e, s) ==
    /\ e \in 0 .. MaxEpoch
    /\ s \in 0 .. len_epoch - 1
    /\ LET new == ScheduleLr(lr[Proc0], e, s, len_epoch)
       IN /\ group_lr' = [g \in 1 .. NumGroups |-> new]
          /\ ret_lr' = new
    /\ called' = TRUE
    /\ epoch' = e
    /\ step' = s
    /\ UNCHANGED <<pc, len_epoch>>
    /\ UNCHANGED <<launchVars, dataVars, trainVars, logVars>>

InitSched ==
    /\ nnodes = 1
    /\ nproc_per_node = 1
    /\ \E b \in BatchSizes, l \in BaseLrs : AfterSetup(b, l)
    /\ pc = [p \in AllProc |-> IF p \in Procs THEN "train" ELSE "none"]
    /\ called = FALSE
    /\ epoch = 0
    /\ step = 0
    /\ len_epoch \in 1 .. MaxLenEpoch
    /\ group_lr = [g \in 1 .. NumGroups |-> lr[Proc0]]
    /\ ret_lr = lr[Proc0]
    /\ IdleData /\ IdleTrain /\ IdleLog

NextSched == \E e \in 0 .. MaxEpoch, s \in 0 .. MaxLenEpoch - 1 : adjust_learning_rate(e, s)

SpecSched == InitSched /\ [][NextSched]_vars

FactorTable(e) ==
    CASE e \in 5 .. 29 -> 0
      [] e \in 30 .. 59 -> 1
      [] e \in 60 .. 79 -> 2
      [] e \in 80 .. 89 -> 3
      [] e \in 90 .. 119 -> 4

\* C8: for every epoch >= 5 the lr set is args.lr * 0.1^factor with factor 0
\* for epochs 5-29, 1 for 30-59, 2 for 60-79, 3 for 80-89 and 4 for 90-119;
\* the factor never decreases and the lr never increases as the epoch grows;
\* the same value is written to every param group and returned.
C8_StepSchedule ==
    called =>
        /\ \A g \in 1 .. NumGroups : group_lr[g] = ret_lr
        /\ epoch \in 5 .. 119 =>
              RatEq(ret_lr, RatOver(lr[Proc0], Pow10(FactorTable(epoch))))
        /\ epoch >= 5 =>
              \A e \in 5 .. epoch :
                  /\ Factor(e) <= Factor(epoch)
                  /\ RatLeq(ret_lr, ScheduleLr(lr[Proc0], e, 0, len_epoch))

\* The schedule was applied at an epoch after the extra decay at epoch 80.
C8_Witness ==
    /\ called
    /\ epoch \in 80 .. 89

====
